---------------------------- MODULE Spec2Model ----------------------------
(***************************************************************************)
(* A model of the household-expense tracker of src/app.py: the category    *)
(* classifier, the validator, the price calculator, the period aggregator  *)
(* (analyze_expenditure), the comparative analyser (ai_analysis) and the   *)
(* add / delete flows over the session's dataset.                          *)
(*                                                                         *)
(* Text is a sequence of characters; a Hangul syllable is written by its   *)
(* romanisation ("chi","kin" is the product name of two syllables the      *)
(* source writes as one word).  Money and ratios are exact rationals       *)
(* <<numerator, denominator>> in lowest terms; a denominator of 0 is the   *)
(* value a division by zero leaves behind.  Dates are day numbers.         *)
(***************************************************************************)
EXTENDS Integers, Sequences, FiniteSets, TLC

VARIABLES df, file, out

vars == <<df, file, out>>

-----------------------------------------------------------------------------
(* Bounds of the model.                                                    *)

MaxNameLen == 3
MaxRows == 3
MaxDataRows == 2
MaxDay == 3
MaxPageRows == 2

-----------------------------------------------------------------------------
(* Rational arithmetic.                                                    *)

Abs(n) == IF n < 0 THEN 0 - n ELSE n

RECURSIVE Gcd(_, _)
Gcd(a, b) == IF b = 0 THEN a ELSE Gcd(b, a % b)

\* The value of the Python expression n / d.  d = 0 is kept as a pair with
\* denominator 0: the nan / inf a numpy division by zero produces.
Rat(n, d) ==
    IF d = 0 THEN <<n, 0>>
    ELSE LET g == Gcd(Abs(n), Abs(d))
             s == IF d < 0 THEN 0 - 1 ELSE 1
         IN  <<(s * n) \div g, (s * d) \div g>>

Int2Rat(n) == <<n, 1>>
RatAdd(a, b) == Rat(a[1] * b[2] + b[1] * a[2], a[2] * b[2])
RatSub(a, b) == Rat(a[1] * b[2] - b[1] * a[2], a[2] * b[2])
RatMul(a, b) == Rat(a[1] * b[1], a[2] * b[2])
RatDiv(a, b) == Rat(a[1] * b[2], a[2] * b[1])
RatLt(a, b) == a[1] * b[2] < b[1] * a[2]
RatLe(a, b) == a[1] * b[2] <= b[1] * a[2]
RatZero == Int2Rat(0)
IsDivByZero(r) == r[2] = 0

-----------------------------------------------------------------------------
(* Python values of the entry widgets: None, a number, a text, a date.     *)

None == [t |-> "None"]
Num(r) == [t |-> "num", v |-> r]
Str(s) == [t |-> "str", v |-> s]
Date(d) == [t |-> "date", v |-> d]

\* Python's `not x`.
Not(x) ==
    \/ x.t = "None"
    \/ x.t = "num" /\ x.v[1] = 0
    \/ x.t = "str" /\ x.v = <<>>

-----------------------------------------------------------------------------
(* The category keyword table.                                             *)

CategoryOrder ==
    <<"Food", "Transport", "Shopping", "Living", "Medical", "Education",
      "Entertainment", "Other">>

Categories == {CategoryOrder[i] : i \in 1..Len(CategoryOrder)}

CATEGORY_KEYWORDS ==
    [c \in Categories |->
        CASE c = "Food" ->
               << <<"eum","sik">>, <<"sik","dang">>, <<"bae","dal">>,
                  <<"ka","pe">>, <<"keo","pi">>, <<"jeom","sim">>,
                  <<"jeo","nyeok">>, <<"a","chim">>, <<"gan","sik">>,
                  <<"chi","kin">>, <<"pi","ja">>, <<"haem","beo","geo">> >>
          [] c = "Transport" ->
               << <<"beo","seu">>, <<"ji","ha","cheol">>, <<"taek","si">>,
                  <<"gi","cha">>, <<"ju","yu">>, <<"ju","cha">>,
                  <<"tong","haeng","ryo">>, <<"gyo","tong">>, <<"i","dong">> >>
          [] c = "Shopping" ->
               << <<"ot">>, <<"sin","bal">>, <<"ga","bang">>,
                  <<"hwa","jang","pum">>, <<"ui","ryu">>, <<"syo","ping">>,
                  <<"on","ra","in">>, <<"ma","ket">> >>
          [] c = "Living" ->
               << <<"jeon","gi">>, <<"ga","seu">>, <<"su","do">>,
                  <<"in","teo","net">>, <<"tong","sin">>,
                  <<"gwan","ri","bi">>, <<"gong","gwa","geum">> >>
          [] c = "Medical" ->
               << <<"byeong","won">>, <<"yak","guk">>, <<"ui","ryo">>,
                  <<"chi","gwa">>, <<"geom","jin">>, <<"yak">> >>
          [] c = "Education" ->
               << <<"hak","won">>, <<"chaek">>, <<"gang","ui">>,
                  <<"gyo","yuk">>, <<"hak","seup">>, <<"gyo","jae">> >>
          [] c = "Entertainment" ->
               << <<"yeong","hwa">>, <<"ge","im">>, <<"nol","i">>,
                  <<"chwi","mi">>, <<"yeo","ga">>, <<"kon","seo","teu">> >>
          [] OTHER -> << >> ]

\* The category names as the texts the source writes.
CategoryName ==
    [c \in Categories |->
        CASE c = "Food" -> <<"sik","bi">>
          [] c = "Transport" -> <<"gyo","tong","bi">>
          [] c = "Shopping" -> <<"syo","ping">>
          [] c = "Living" -> <<"saeng","hwal","bi">>
          [] c = "Medical" -> <<"ui","ryo">>
          [] c = "Education" -> <<"gyo","yuk">>
          [] c = "Entertainment" -> <<"o","rak">>
          [] OTHER -> <<"gi","ta">> ]

-----------------------------------------------------------------------------
(* Text helpers.                                                           *)

\* str.lower() on one character: Latin capitals fold, Hangul has no case.
LowerChar(c) ==
    CASE c = "X" -> "x"
      [] c = "Y" -> "y"
      [] OTHER -> c

lower(s) == [i \in 1..Len(s) |-> LowerChar(s[i])]

\* Python's `k in s` on texts.
Contains(k, s) ==
    \E i \in 1..(Len(s) - Len(k) + 1) :
        \A j \in 1..Len(k) : s[i + j - 1] = k[j]

\* Number of (possibly overlapping) places where k occurs in s.
Occurrences(k, s) ==
    Cardinality({i \in 1..(Len(s) - Len(k) + 1) :
                    \A j \in 1..Len(k) : s[i + j - 1] = k[j]})

-----------------------------------------------------------------------------
(* recommend_category                                                      *)

RECURSIVE KeywordScoreOccurrences(_, _, _)
KeywordScoreOccurrences(keywords, product_lower, i) ==
    IF i > Len(keywords) THEN 0
    ELSE Occurrences(keywords[i], product_lower)
         + KeywordScoreOccurrences(keywords, product_lower, i + 1)

\* The inner loop: score += 1 for each keyword found in product_lower.
RECURSIVE KeywordScore(_, _, _)
KeywordScore(keywords, product_lower, i) ==
    IF i > Len(keywords) THEN 0
    ELSE (IF Contains(keywords[i], product_lower) THEN 1 ELSE 0)
         + KeywordScore(keywords, product_lower, i + 1)

\* The scores dict after the outer loop.
Scores(product_name) ==
    [c \in Categories |->
        KeywordScore(CATEGORY_KEYWORDS[c], lower(product_name), 1)]

MaxScore(scores) ==
    CHOOSE m \in {scores[c] : c \in Categories} :
        \A c \in Categories : scores[c] <= m

\* max(scores, key=scores.get): the first key, in the dict's insertion
\* order, that carries the maximum.
ArgMax(scores) ==
    LET i == CHOOSE k \in 1..Len(CategoryOrder) :
                 /\ scores[CategoryOrder[k]] = MaxScore(scores)
                 /\ \A l \in 1..(k - 1) :
                        scores[CategoryOrder[l]] < MaxScore(scores)
    IN  CategoryOrder[i]

recommend_category_NoFallback(product_name) ==
    ArgMax(Scores(product_name))

recommend_category(product_name) ==
    IF product_name = <<>> THEN "Other"
    ELSE LET scores == Scores(product_name)
         IN  IF MaxScore(scores) > 0 THEN ArgMax(scores) ELSE "Other"

-----------------------------------------------------------------------------
(* validate_input                                                          *)

LabelDate == "purchase date"
LabelCategory == "category"
LabelProduct == "product name"
LabelPrice == "price"

Opt(cond, label) == IF cond THEN <<label>> ELSE <<>>

\* The price test without its `price <= 0` half.
validate_input_NoSignCheck(date_input, category, product_name, price, quantity) ==
    Opt(Not(date_input), LabelDate)
    \o Opt(Not(category), LabelCategory)
    \o Opt(Not(product_name), LabelProduct)
    \o Opt(Not(price), LabelPrice)

validate_input(date_input, category, product_name, price, quantity) ==
    Opt(Not(date_input), LabelDate)
    \o Opt(Not(category), LabelCategory)
    \o Opt(Not(product_name), LabelProduct)
    \o Opt(Not(price) \/ RatLe(price.v, RatZero), LabelPrice)

-----------------------------------------------------------------------------
(* calculate_price                                                         *)

calculate_price_NoQuantityGuard(price, quantity, price_type) ==
    IF price_type = "unit"
    THEN <<price, RatMul(price, Int2Rat(quantity))>>
    ELSE <<RatDiv(price, Int2Rat(quantity)), price>>

\* The per-unit branch without its multiplication.
calculate_price_UnitAsTotal(price, quantity, price_type) ==
    IF price_type = "unit"
    THEN <<price, price>>
    ELSE <<IF quantity > 0 THEN RatDiv(price, Int2Rat(quantity)) ELSE price,
           price>>

\* Returns <<unit_price, total_price>>.
calculate_price(price, quantity, price_type) ==
    IF price_type = "unit"
    THEN LET unit_price == price
             total_price == IF quantity > 0
                            THEN RatMul(unit_price, Int2Rat(quantity))
                            ELSE unit_price
         IN  <<unit_price, total_price>>
    ELSE LET total_price == price
             unit_price == IF quantity > 0
                           THEN RatDiv(total_price, Int2Rat(quantity))
                           ELSE total_price
         IN  <<unit_price, total_price>>

-----------------------------------------------------------------------------
(* Dates.  The '날짜' column holds Timestamps after parse_date_series; the  *)
(* JSON file holds their str() text.                                       *)

Timestamp(d) == [t |-> "ts", v |-> d]
NaT == [t |-> "NaT"]
IsoText(d) == <<"iso", d>>

\* str(x) as json.dump's default=str applies it to a date cell.
DateToStr(x) ==
    IF x.t = "ts" THEN Str(IsoText(x.v))
    ELSE IF x.t = "date" THEN Str(IsoText(x.v))
    ELSE Str(<<"NaT">>)

\* pd.to_datetime(x, errors='coerce') on one cell.
to_datetime(x) ==
    IF x.t = "ts" THEN x
    ELSE IF x.t = "date" THEN Timestamp(x.v)
    ELSE IF x.t = "str" /\ Len(x.v) = 2 /\ x.v[1] = "iso" THEN Timestamp(x.v[2])
    ELSE NaT

\* parse_date_series over the '날짜' column of a frame (the empty series is
\* returned as it is).
parse_date_series(frame) ==
    IF frame = <<>> THEN frame
    ELSE [i \in 1..Len(frame) |->
            [frame[i] EXCEPT !.date = to_datetime(frame[i].date)]]

\* Timestamp comparisons; every comparison with NaT is False.
DateGe(x, d) == x.t = "ts" /\ x.v >= d
DateLe(x, d) == x.t = "ts" /\ x.v <= d
DateLt(x, d) == x.t = "ts" /\ x.v < d

-----------------------------------------------------------------------------
(* The dataset: a DataFrame as the sequence of its rows, each carrying its *)
(* index label idx.                                                        *)

Row(idx, date, category, product_name, price, quantity, unit_price, total_price) ==
    [idx |-> idx, date |-> date, category |-> category,
     product_name |-> product_name, price |-> price, quantity |-> quantity,
     unit_price |-> unit_price, total_price |-> total_price]

\* A row without its index label: what to_dict('records') keeps.
Record(r) ==
    [date |-> r.date, category |-> r.category, product_name |-> r.product_name,
     price |-> r.price, quantity |-> r.quantity, unit_price |-> r.unit_price,
     total_price |-> r.total_price]

Records(frame) == [i \in 1..Len(frame) |-> Record(frame[i])]

IndexOf(frame) == {frame[i].idx : i \in 1..Len(frame)}

\* pd.DataFrame(data): the records under a fresh RangeIndex.
DataFrame(data) ==
    [i \in 1..Len(data) |->
        Row(i - 1, data[i].date, data[i].category, data[i].product_name,
            data[i].price, data[i].quantity, data[i].unit_price,
            data[i].total_price)]

\* DATA_FILE: absent, or holding the list of records json.dump wrote.
NoFile == [exists |-> FALSE, data |-> <<>>]
FileOf(data) == [exists |-> TRUE, data |-> data]

\* load_data: the frame of the file's records; the empty frame when there
\* is no file.
load_data(f) ==
    IF f.exists
    THEN LET frame == DataFrame(f.data)
         IN  IF frame # <<>> THEN parse_date_series(frame) ELSE frame
    ELSE <<>>

\* save_data for the empty frame, leaving no file behind.
save_data_EmptyLeavesNoFile(frame) ==
    IF frame # <<>>
    THEN FileOf([i \in 1..Len(frame) |->
            [Record(frame[i]) EXCEPT !.date = DateToStr(frame[i].date)]])
    ELSE NoFile

\* save_data: the file json.dump leaves; the empty frame writes [].
save_data(frame) ==
    IF frame # <<>>
    THEN FileOf([i \in 1..Len(frame) |->
            [Record(frame[i]) EXCEPT !.date = DateToStr(frame[i].date)]])
    ELSE FileOf(<<>>)

\* pd.concat([a, b], ignore_index=True)
concat_ignore_index(a, b) ==
    LET all == a \o b
    IN  [i \in 1..Len(all) |-> [all[i] EXCEPT !.idx = i - 1]]

\* DataFrame.drop(labels)
drop(frame, labels) == SelectSeq(frame, LAMBDA r : r.idx \notin labels)

reset_index_KeepLabels(frame) == frame

\* DataFrame.reset_index(drop=True)
reset_index(frame) == [i \in 1..Len(frame) |-> [frame[i] EXCEPT !.idx = i - 1]]

-----------------------------------------------------------------------------
(* Ordering of texts: Python compares str by code point, and pandas'       *)
(* groupby lists its keys in that order.                                   *)

CodePointOrder ==
    <<"X", "Y", "x", "y",
      "ga", "gan", "gam", "gang", "gae", "geo", "geom", "ge", "gyeong", "go",
      "gong", "gwa", "gwan", "gyo", "guk", "geum", "gi", "nat", "net",
      "nyeok", "nol", "dal", "dang", "do", "dong", "deu", "ra", "rak", "ryo",
      "ryu", "ri", "ma", "mok", "mi", "bal", "bang", "bae", "baek", "beo",
      "byeon", "byeol", "byeong", "bi", "bin", "sa", "saeng", "seo", "seon",
      "se", "so", "syo", "su", "seu", "seup", "si", "sik", "sin", "sim", "a",
      "yak", "eon", "yeo", "yeong", "o", "on", "ot", "won", "yu", "yuk",
      "eum", "ui", "i", "in", "im", "ja", "jang", "jae", "jeo", "jeon",
      "jeol", "jeom", "jo", "ju", "jeung", "ji", "jin", "cha", "chaek",
      "cheon", "cheol", "chu", "chul", "chwi", "chi", "chim", "ka", "keo",
      "ket", "kon", "kin", "ta", "taek", "teo", "te", "tong", "teu", "pe",
      "pum", "pi", "ping", "ha", "hak", "hang", "haem", "haeng", "hyang",
      "hwa", "hwal", "hoet">>

CodePoint(c) == CHOOSE i \in 1..Len(CodePointOrder) : CodePointOrder[i] = c

RECURSIVE TextLt(_, _)
TextLt(a, b) ==
    IF a = <<>> THEN b # <<>>
    ELSE IF b = <<>> THEN FALSE
    ELSE IF Head(a) = Head(b) THEN TextLt(Tail(a), Tail(b))
    ELSE CodePoint(Head(a)) < CodePoint(Head(b))

\* The categories in the order of their names: the key order of
\* groupby('품목').
RECURSIVE SortCategories(_)
SortCategories(S) ==
    IF S = {} THEN <<>>
    ELSE LET m == CHOOSE x \in S :
                      \A y \in S \ {x} : TextLt(CategoryName[x], CategoryName[y])
         IN  <<m>> \o SortCategories(S \ {m})

GroupKeyOrder == SortCategories(Categories)

-----------------------------------------------------------------------------
(* Series helpers.                                                         *)

\* filtered_df['전체가격'].sum()
RECURSIVE SumTotalPrice(_)
SumTotalPrice(frame) ==
    IF frame = <<>> THEN RatZero
    ELSE RatAdd(Head(frame).total_price, SumTotalPrice(Tail(frame)))

RECURSIVE SumPrice(_)
SumPrice(frame) ==
    IF frame = <<>> THEN RatZero
    ELSE RatAdd(Head(frame).price, SumPrice(Tail(frame)))

\* The sum of column '가격' in place of column '전체가격'.
GroupBySum_InputPrice(frame) ==
    LET present == SelectSeq(GroupKeyOrder, LAMBDA c :
                       \E i \in 1..Len(frame) : frame[i].category = c)
    IN  [k \in 1..Len(present) |->
            [category |-> present[k],
             amount |-> SumPrice(SelectSeq(frame, LAMBDA r :
                            r.category = present[k]))]]

\* frame.groupby('품목')['전체가격'].sum(): one entry per category present,
\* in key order.
GroupBySum(frame) ==
    LET present == SelectSeq(GroupKeyOrder, LAMBDA c :
                       \E i \in 1..Len(frame) : frame[i].category = c)
    IN  [k \in 1..Len(present) |->
            [category |-> present[k],
             amount |-> SumTotalPrice(SelectSeq(frame, LAMBDA r :
                            r.category = present[k]))]]

\* Insert e after every entry whose amount is >= its own.
RECURSIVE InsertDesc(_, _)
InsertDesc(sorted, e) ==
    IF sorted = <<>> THEN <<e>>
    ELSE IF RatLt(Head(sorted).amount, e.amount) THEN <<e>> \o sorted
    ELSE <<Head(sorted)>> \o InsertDesc(Tail(sorted), e)

\* Series.sort_values(ascending=False); entries of equal amount keep their
\* order.
RECURSIVE SortDesc(_)
SortDesc(series) ==
    IF series = <<>> THEN <<>>
    ELSE InsertDesc(SortDesc(SubSeq(series, 1, Len(series) - 1)),
                    series[Len(series)])

\* The distinct product names of a frame in first-seen order.
RECURSIVE FirstSeen(_, _)
FirstSeen(frame, seen) ==
    IF frame = <<>> THEN <<>>
    ELSE IF Head(frame).product_name \in seen
         THEN FirstSeen(Tail(frame), seen)
         ELSE <<Head(frame).product_name>>
              \o FirstSeen(Tail(frame), seen \cup {Head(frame).product_name})

\* filtered_df['제품명'].value_counts(): name -> count, descending by count.
value_counts(frame) ==
    LET names == FirstSeen(frame, {})
    IN  SortDesc([k \in 1..Len(names) |->
            [product |-> names[k],
             amount |-> Int2Rat(Len(SelectSeq(frame, LAMBDA r :
                            r.product_name = names[k])))]])

head(series, n) == SubSeq(series, 1, IF Len(series) < n THEN Len(series) ELSE n)

-----------------------------------------------------------------------------
(* analyze_expenditure                                                     *)

MsgNoData == "no data"
MsgNoDataInPeriod == "no data in the selected period"
MsgNoDataForCondition == "no data for the selected condition"

NoFilter == "None"
Truthy(category_filter) == category_filter \notin {NoFilter, ""}

\* df[(df['날짜'] >= start_date) & (df['날짜'] <= end_date)]
InPeriod(frame, start_date, end_date) ==
    SelectSeq(frame, LAMBDA r :
        DateGe(r.date, start_date) /\ DateLe(r.date, end_date))

\* The result from line 154 on, for a non-empty filtered frame.
Aggregate(filtered_df, start_date, end_date) ==
    LET total_expenditure == SumTotalPrice(filtered_df)
        transaction_count == Len(filtered_df)
        category_expenditure == SortDesc(GroupBySum(filtered_df))
        product_frequency == value_counts(filtered_df)
    IN  [kind |-> "aggregate",
         start_date |-> start_date,
         end_date |-> end_date,
         total |-> total_expenditure,
         average |-> RatDiv(total_expenditure, Int2Rat(transaction_count)),
         count |-> transaction_count,
         by_category |->
            [k \in 1..Len(category_expenditure) |->
                [category |-> category_expenditure[k].category,
                 amount |-> category_expenditure[k].amount,
                 percentage |->
                    RatMul(RatDiv(category_expenditure[k].amount,
                                  total_expenditure), Int2Rat(100))]],
         top_products |-> head(product_frequency, 5)]

analyze_expenditure_ZeroAggregate(frame, start_date, end_date, category_filter) ==
    LET in_period == InPeriod(parse_date_series(frame), start_date, end_date)
        filtered_df == IF Truthy(category_filter)
                       THEN SelectSeq(in_period, LAMBDA r :
                                r.category = category_filter)
                       ELSE in_period
    IN  IF in_period = <<>> THEN [kind |-> "nodata", msg |-> MsgNoDataInPeriod]
        ELSE IF filtered_df = <<>>
        THEN [kind |-> "aggregate", start_date |-> start_date,
              end_date |-> end_date, total |-> RatZero, average |-> RatZero,
              count |-> 0, by_category |-> <<>>, top_products |-> <<>>]
        ELSE Aggregate(filtered_df, start_date, end_date)

analyze_expenditure(frame, start_date, end_date, category_filter) ==
    IF frame = <<>> THEN [kind |-> "nodata", msg |-> MsgNoData]
    ELSE LET in_period == InPeriod(parse_date_series(frame), start_date, end_date)
             filtered_df == IF Truthy(category_filter)
                            THEN SelectSeq(in_period, LAMBDA r :
                                     r.category = category_filter)
                            ELSE in_period
         IN  IF in_period = <<>>
             THEN [kind |-> "nodata", msg |-> MsgNoDataInPeriod]
             ELSE IF filtered_df = <<>>
             THEN [kind |-> "nodata", msg |-> MsgNoDataForCondition]
             ELSE Aggregate(filtered_df, start_date, end_date)

-----------------------------------------------------------------------------
(* ai_analysis                                                             *)

TrendKeywords ==
    << <<"gyeong","hyang">>, <<"chu","se">>, <<"byeon","hwa">>,
       <<"jeung","gam">>, <<"bi","gyo">>, <<"chu","i">>, <<"jeung","ga">>,
       <<"gam","so">> >>
CategoryDetailKeywords ==
    << <<"ji","chul">>, <<"hang","mok">>, <<"ka","te","go","ri">> >>
FrequencyKeywords ==
    << <<"bin","do">>, <<"nat","gae">>, <<"gae","byeol">>, <<"ja","ju">>,
       <<"hoet","su">> >>
FeedbackKeywords ==
    << <<"pi","deu","baek">>, <<"chu","cheon">>, <<"jo","eon">>,
       <<"jeol","gam">>, <<"gae","seon">>, <<"in","sa","i","teu">> >>

\* any(keyword in text for keyword in keywords)
AnyIn(keywords, text) ==
    \E i \in 1..Len(keywords) : Contains(keywords[i], text)

\* [cat for cat in CATEGORY_KEYWORDS if cat.lower() in query_lower]
CategoriesRequested(query_lower) ==
    SelectSeq(CategoryOrder, LAMBDA c :
        Contains(lower(CategoryName[c]), query_lower))

Max(a, b) == IF a >= b THEN a ELSE b

\* period_days, prev_start and prev_end; the previous window is
\* prev_start <= date < prev_end.
PreviousWindow(start_date, end_date) ==
    LET period_days == Max(end_date - start_date, 1)
    IN  [period_days |-> period_days,
         prev_start |-> start_date - period_days,
         prev_end |-> start_date]

\* df[(df['날짜'] >= prev_start) & (df['날짜'] < prev_end)]
PreviousFrame(frame, window) ==
    SelectSeq(frame, LAMBDA r :
        DateGe(r.date, window.prev_start) /\ DateLt(r.date, window.prev_end))

MaxDate(frame) ==
    CHOOSE d \in {frame[i].date.v : i \in 1..Len(frame)} :
        \A i \in 1..Len(frame) : frame[i].date.v <= d
MinDate(frame) ==
    CHOOSE d \in {frame[i].date.v : i \in 1..Len(frame)} :
        \A i \in 1..Len(frame) : frame[i].date.v >= d

CurrentDays(filtered_df) ==
    Max(MaxDate(filtered_df) - MinDate(filtered_df) + 1, 1)

DailyAvg(filtered_df) ==
    RatDiv(SumTotalPrice(filtered_df), Int2Rat(CurrentDays(filtered_df)))

\* (current - previous) / previous * 100
PercentChange(current, previous) ==
    RatMul(RatDiv(RatSub(current, previous), previous), Int2Rat(100))

Direction(change) == IF RatLt(RatZero, change) THEN "increase" ELSE "decrease"

\* share of the current total, 0 when the total is not positive
Share(amount, current_total) ==
    IF RatLt(RatZero, current_total)
    THEN RatMul(RatDiv(amount, current_total), Int2Rat(100))
    ELSE RatZero

\* What the trend summary says about the previous period.
CmpPercent == "changed by a percentage against the previous period"
CmpNoPrevSpending == "there was no spending in the previous period"
CmpNoPrevData == "no comparable previous-period data"
CmpNew == "new spending against the previous period"
CmpNone == ""

TrendSummary_PercentOfZero(filtered_df, prev_df) ==
    LET current_total == SumTotalPrice(filtered_df)
        prev_total == SumTotalPrice(prev_df)
        total_change == PercentChange(current_total, prev_total)
    IN  [current_total |-> current_total,
         daily_avg |-> DailyAvg(filtered_df),
         cmp |-> IF prev_df # <<>> THEN CmpPercent ELSE CmpNoPrevData,
         change |-> IF prev_df # <<>> THEN total_change ELSE RatZero,
         direction |-> IF prev_df # <<>> THEN Direction(total_change) ELSE ""]

\* trend_summary: the totals and the comparison sentence.
TrendSummary(filtered_df, prev_df) ==
    LET current_total == SumTotalPrice(filtered_df)
        prev_total == SumTotalPrice(prev_df)
        total_change == PercentChange(current_total, prev_total)
        compared == prev_df # <<>> /\ RatLt(RatZero, prev_total)
    IN  [current_total |-> current_total,
         daily_avg |-> DailyAvg(filtered_df),
         cmp |-> IF prev_df # <<>>
                 THEN IF RatLt(RatZero, prev_total)
                      THEN CmpPercent ELSE CmpNoPrevSpending
                 ELSE CmpNoPrevData,
         change |-> IF compared THEN total_change ELSE RatZero,
         direction |-> IF compared THEN Direction(total_change) ELSE ""]

\* Series.get(category, 0), and 0 for the empty series.
AmountOf(series, category) ==
    IF \E k \in 1..Len(series) : series[k].category = category
    THEN series[CHOOSE k \in 1..Len(series) :
                    series[k].category = category].amount
    ELSE RatZero

\* The line without its last branch: "new spending" whenever no percentage
\* is stated.
CategoryLine_NewWithoutPrevious(category, current_category_exp, prev_category_exp, prev_df, current_total) ==
    LET current_amount == AmountOf(current_category_exp, category)
        prev_amount == AmountOf(prev_category_exp, category)
        compared == RatLt(RatZero, prev_amount)
        change == PercentChange(current_amount, prev_amount)
    IN  [category |-> category,
         amount |-> current_amount,
         share |-> Share(current_amount, current_total),
         cmp |-> IF compared THEN CmpPercent ELSE CmpNew,
         change |-> IF compared THEN change ELSE RatZero,
         direction |-> IF compared THEN Direction(change) ELSE ""]

\* One line of category_focus.
CategoryLine(category, current_category_exp, prev_category_exp, prev_df, current_total) ==
    LET current_amount == AmountOf(current_category_exp, category)
        prev_amount == AmountOf(prev_category_exp, category)
        compared == RatLt(RatZero, prev_amount)
        change == PercentChange(current_amount, prev_amount)
    IN  [category |-> category,
         amount |-> current_amount,
         share |-> Share(current_amount, current_total),
         cmp |-> IF compared THEN CmpPercent
                 ELSE IF prev_df # <<>> THEN CmpNew ELSE CmpNone,
         change |-> IF compared THEN change ELSE RatZero,
         direction |-> IF compared THEN Direction(change) ELSE ""]

\* category_focus: a line for every focus category that has current spend.
CategoryFocus(focus_categories, current_category_exp, prev_category_exp, prev_df, current_total) ==
    LET present == SelectSeq(focus_categories, LAMBDA c :
                       \E k \in 1..Len(current_category_exp) :
                           current_category_exp[k].category = c)
    IN  [k \in 1..Len(present) |->
            CategoryLine(present[k], current_category_exp, prev_category_exp,
                         prev_df, current_total)]

\* The product names of a frame in key order.
RECURSIVE SortNames(_)
SortNames(S) ==
    IF S = {} THEN <<>>
    ELSE LET m == CHOOSE x \in S : \A y \in S \ {x} : TextLt(x, y)
         IN  <<m>> \o SortNames(S \ {m})

\* filtered_df.groupby('제품명').agg(sum, count)
\*     .sort_values(by='총지출', ascending=False).head(5)
TopItems(filtered_df) ==
    LET names == SortNames({filtered_df[i].product_name :
                               i \in 1..Len(filtered_df)})
    IN  head(SortDesc([k \in 1..Len(names) |->
            LET rows == SelectSeq(filtered_df, LAMBDA r :
                            r.product_name = names[k])
            IN  [product |-> names[k], count |-> Len(rows),
                 amount |-> SumTotalPrice(rows)]]), 5)

\* 100 * (rows with quantity 1) / rows, 0 for no rows
SingleRatio(frame) ==
    IF Len(frame) > 0
    THEN RatMul(RatDiv(Int2Rat(Len(SelectSeq(frame, LAMBDA r : r.quantity = 1))),
                       Int2Rat(Len(frame))), Int2Rat(100))
    ELSE RatZero

\* habit_lines
HabitLines(filtered_df, prev_df, current_category_exp, current_total, wants_frequency, wants_items) ==
    LET top_categories == head(current_category_exp, 3)
        top_items == TopItems(filtered_df)
        current_ratio == SingleRatio(filtered_df)
        change == RatSub(current_ratio, SingleRatio(prev_df))
    IN  (IF top_categories # <<>>
         THEN <<[line |-> "top category",
                 category |-> top_categories[1].category,
                 share |-> Share(top_categories[1].amount, current_total)]>>
         ELSE <<>>)
        \o (IF wants_frequency
            THEN IF prev_df # <<>>
                 THEN <<[line |-> "single purchases", ratio |-> current_ratio,
                         change |-> IF RatLt(change, RatZero)
                                    THEN RatSub(RatZero, change) ELSE change,
                         direction |-> Direction(change)]>>
                 ELSE <<[line |-> "single purchases", ratio |-> current_ratio]>>
            ELSE <<>>)
        \o (IF top_items # <<>> /\ wants_items
            THEN <<[line |-> "main items", items |-> top_items]>>
            ELSE <<>>)

RuleHighShare == "share is high: review the need for this spending"
RuleIncrease == "spending increased: set a budget cap"
RuleDailyBudget == "align the budget with the daily average"
RuleStable == "the spending pattern is stable"

\* The share rule with a strict threshold.
CategoryFeedback_StrictShare(category, amount, current_total, prev_category_exp, prev_df) ==
    LET share == RatMul(RatDiv(amount, current_total), Int2Rat(100))
        prev_amount == AmountOf(prev_category_exp, category)
        change == PercentChange(amount, prev_amount)
    IN  (IF RatLt(Int2Rat(30), share)
         THEN <<[rule |-> RuleHighShare, category |-> category, value |-> share]>>
         ELSE <<>>)
        \o (IF prev_df # <<>> /\ RatLt(RatZero, prev_amount)
               /\ RatLe(Int2Rat(20), change)
            THEN <<[rule |-> RuleIncrease, category |-> category, value |-> change]>>
            ELSE <<>>)

\* The lines one category adds to feedback_lines.
CategoryFeedback(category, amount, current_total, prev_category_exp, prev_df) ==
    LET share == RatMul(RatDiv(amount, current_total), Int2Rat(100))
        prev_amount == AmountOf(prev_category_exp, category)
        change == PercentChange(amount, prev_amount)
    IN  (IF RatLe(Int2Rat(30), share)
         THEN <<[rule |-> RuleHighShare, category |-> category, value |-> share]>>
         ELSE <<>>)
        \o (IF prev_df # <<>> /\ RatLt(RatZero, prev_amount)
               /\ RatLe(Int2Rat(20), change)
            THEN <<[rule |-> RuleIncrease, category |-> category, value |-> change]>>
            ELSE <<>>)

RECURSIVE CategoriesFeedback(_, _, _, _, _)
CategoriesFeedback(series, k, current_total, prev_category_exp, prev_df) ==
    IF k > Len(series) THEN <<>>
    ELSE CategoryFeedback(series[k].category, series[k].amount, current_total,
                          prev_category_exp, prev_df)
         \o CategoriesFeedback(series, k + 1, current_total, prev_category_exp,
                               prev_df)

\* list(dict.fromkeys(lines))
RECURSIVE Dedup(_, _)
Dedup(lines, seen) ==
    IF lines = <<>> THEN <<>>
    ELSE IF Head(lines) \in seen THEN Dedup(Tail(lines), seen)
    ELSE <<Head(lines)>> \o Dedup(Tail(lines), seen \cup {Head(lines)})

\* feedback_lines without the line added when no rule fired.
FeedbackLines_NoFallback(current_category_exp, current_total, daily_avg, prev_category_exp, prev_df) ==
    LET by_category == IF RatLt(RatZero, current_total)
                       THEN CategoriesFeedback(current_category_exp, 1,
                                current_total, prev_category_exp, prev_df)
                       ELSE <<>>
        budget == IF RatLt(RatZero, daily_avg)
                  THEN <<[rule |-> RuleDailyBudget, category |-> "",
                          value |-> daily_avg]>>
                  ELSE <<>>
    IN  Dedup(by_category \o budget, {})

\* feedback_lines, deduplicated
FeedbackLines(current_category_exp, current_total, daily_avg, prev_category_exp, prev_df) ==
    LET by_category == IF RatLt(RatZero, current_total)
                       THEN CategoriesFeedback(current_category_exp, 1,
                                current_total, prev_category_exp, prev_df)
                       ELSE <<>>
        budget == IF RatLt(RatZero, daily_avg)
                  THEN <<[rule |-> RuleDailyBudget, category |-> "",
                          value |-> daily_avg]>>
                  ELSE <<>>
        lines == by_category \o budget
    IN  Dedup(IF lines = <<>>
              THEN <<[rule |-> RuleStable, category |-> "", value |-> RatZero]>>
              ELSE lines, {})

TitleTrend == "spending trend summary"
TitleCategory == "category detail"
TitlePattern == "spending pattern"
TitleFeedback == "suggestions"
MsgInsufficient == "insufficient data, ask a more specific question"

\* The body of ai_analysis from line 198 on, for a non-empty filtered frame.
Report(frame, filtered_df, start_date, end_date, user_query) ==
    LET window == PreviousWindow(start_date, end_date)
        prev_df == PreviousFrame(frame, window)
        query_lower == lower(user_query)
        categories_requested == CategoriesRequested(query_lower)
        wants_trend == AnyIn(TrendKeywords, query_lower)
        wants_category_detail ==
            AnyIn(CategoryDetailKeywords, query_lower)
            \/ categories_requested # <<>>
        wants_frequency == AnyIn(FrequencyKeywords, query_lower)
        trend == TrendSummary(filtered_df, prev_df)
        current_total == trend.current_total
        current_category_exp == SortDesc(GroupBySum(filtered_df))
        focus_categories ==
            IF categories_requested # <<>> THEN categories_requested
            ELSE [k \in 1..Len(current_category_exp) |->
                     current_category_exp[k].category]
        prev_category_exp == IF prev_df # <<>> THEN GroupBySum(prev_df) ELSE <<>>
        category_focus ==
            CategoryFocus(focus_categories, current_category_exp,
                          prev_category_exp, prev_df, current_total)
        habit_lines ==
            HabitLines(filtered_df, prev_df, current_category_exp, current_total,
                       wants_frequency,
                       wants_frequency \/ wants_category_detail \/ wants_trend)
        feedback_lines ==
            FeedbackLines(current_category_exp, current_total, trend.daily_avg,
                          prev_category_exp, prev_df)
        result_sections ==
            <<[title |-> TitleTrend, content |-> <<trend>>]>>
            \o (IF focus_categories # <<>> /\ category_focus # <<>>
                   /\ (wants_category_detail \/ categories_requested # <<>>)
                THEN <<[title |-> TitleCategory,
                        content |-> head(category_focus, 5)]>>
                ELSE <<>>)
            \o (IF habit_lines # <<>>
                THEN <<[title |-> TitlePattern, content |-> habit_lines]>>
                ELSE <<>>)
            \o <<[title |-> TitleFeedback, content |-> feedback_lines]>>
        formatted_sections ==
            SelectSeq(result_sections, LAMBDA sec : sec.content # <<>>)
    IN  IF formatted_sections # <<>>
        THEN [kind |-> "report", window |-> window,
              sections |-> formatted_sections]
        ELSE [kind |-> "nodata", msg |-> MsgInsufficient]

ai_analysis(frame, start_date, end_date, user_query) ==
    IF frame = <<>> THEN [kind |-> "nodata", msg |-> MsgNoData]
    ELSE LET parsed == parse_date_series(frame)
             filtered_df == InPeriod(parsed, start_date, end_date)
         IN  IF filtered_df = <<>>
             THEN [kind |-> "nodata", msg |-> MsgNoDataInPeriod]
             ELSE Report(parsed, filtered_df, start_date, end_date, user_query)

-----------------------------------------------------------------------------
(* The session: the entry page's add flow and the list page's delete flow  *)
(* over st.session_state.df, each saving the dataset after it mutates it.  *)

\* The options of the category selectbox.
SelectboxOptions ==
    <<"Food", "Transport", "Shopping", "Living", "Medical", "Education",
      "Entertainment", "Other">>

\* What the user enters (bounded): the date picker always holds a date, the
\* price box holds a number >= 0, the quantity box an integer >= 1.
EntryDays == {0, 1}
EntryCategories == {SelectboxOptions[1], SelectboxOptions[8]}
EntryNames == {<<>>, <<"chi", "kin">>}
EntryPrices == {Int2Rat(0), Int2Rat(29)}
EntryQuantities == {1, 7}
PriceTypes == {"unit", "total"}

\* The list page's filters: an optional date range, a category ("All" or one
\* present in the dataset) and a product-name search text.
DateFilters ==
    {[on |-> FALSE, start |-> 0, end |-> 0]}
    \cup {[on |-> TRUE, start |-> a, end |-> b] : a \in EntryDays, b \in EntryDays}
SearchTexts == {<<>>, <<"chi">>}
AnalysisRequests == {<<"ji", "chul">>}

Init ==
    /\ file = NoFile
    /\ df = load_data(file)
    /\ out = [op |-> "start"]

\* A new session reads the dataset back from the file.
NewSession ==
    /\ df' = load_data(file)
    /\ out' = [op |-> "start"]
    /\ UNCHANGED file

\* The "add item" button, on a dataset of fewer than `limit` records.
AddRow(limit) ==
    \E purchase_date \in EntryDays, category \in EntryCategories,
       product_name \in EntryNames, price \in EntryPrices,
       quantity \in EntryQuantities, price_type \in PriceTypes :
        LET validation_errors ==
                validate_input(Date(purchase_date), Str(CategoryName[category]),
                               Str(product_name), Num(price),
                               Num(Int2Rat(quantity)))
            prices == calculate_price(price, quantity, price_type)
            new_row == <<Row(0, Date(purchase_date), category, product_name,
                             price, quantity, prices[1], prices[2])>>
            new_df == parse_date_series(concat_ignore_index(df, new_row))
        IN  /\ Len(df) < limit
            /\ IF validation_errors # <<>>
               THEN /\ out' = [op |-> "add", validation_errors |-> validation_errors]
                    /\ UNCHANGED <<df, file>>
               ELSE /\ df' = new_df
                    /\ file' = save_data(new_df)
                    /\ out' = [op |-> "add", validation_errors |-> <<>>]

Add == AddRow(MaxRows)

\* The rows the list page shows under its filters (they keep their labels).
ListFiltered(date_filter, selected_category, search_product) ==
    LET parsed == parse_date_series(df)
        by_date == IF date_filter.on /\ parsed # <<>>
                   THEN SelectSeq(parsed, LAMBDA r :
                            DateGe(r.date, date_filter.start)
                            /\ DateLe(r.date, date_filter.end))
                   ELSE parsed
        by_category == IF selected_category # "All" /\ by_date # <<>>
                       THEN SelectSeq(by_date, LAMBDA r :
                                r.category = selected_category)
                       ELSE by_date
    IN  IF search_product # <<>> /\ by_category # <<>>
        THEN SelectSeq(by_category, LAMBDA r :
                 Contains(lower(search_product), lower(r.product_name)))
        ELSE by_category

\* The "delete selected items" button.
Delete ==
    /\ df # <<>>
    /\ \E date_filter \in DateFilters,
          selected_category \in {"All"} \cup {df[i].category : i \in 1..Len(df)},
          search_product \in SearchTexts :
        LET filtered_df == ListFiltered(date_filter, selected_category,
                                        search_product)
        IN  /\ filtered_df # <<>>
            /\ \E delete_indices \in SUBSET IndexOf(filtered_df) :
                /\ out' = [op |-> "delete", delete_indices |-> delete_indices]
                /\ IF delete_indices # {}
                   THEN /\ df' = reset_index(drop(df, delete_indices))
                        /\ file' = save_data(df')
                   ELSE UNCHANGED <<df, file>>

\* The list page shown under some filters.
ViewList ==
    /\ df # <<>>
    /\ \E date_filter \in DateFilters,
          selected_category \in {"All"} \cup {df[i].category : i \in 1..Len(df)},
          search_product \in SearchTexts :
        out' = [op |-> "list",
                shown |-> Len(ListFiltered(date_filter, selected_category,
                                           search_product))]
    /\ UNCHANGED <<df, file>>

\* The AI page's "run analysis" button with a non-empty request: both
\* analyses run on the session's dataset, which they hand back with its date
\* column parsed again.
Analyze ==
    /\ df # <<>>
    /\ \E start_date \in EntryDays, end_date \in EntryDays,
          user_query \in AnalysisRequests :
        out' = [op |-> "analysis",
                basic_analysis |->
                    analyze_expenditure(df, start_date, end_date, NoFilter).kind,
                ai_result |->
                    ai_analysis(df, start_date, end_date, user_query).kind]
    /\ df' = parse_date_series(df)
    /\ UNCHANGED file

Next == Add \/ Delete \/ NewSession

Spec == Init /\ [][Next]_vars

\* The session with all of its pages: entry, list, AI analysis.
AddOnPages == AddRow(MaxPageRows)

NextPages == AddOnPages \/ Delete \/ NewSession \/ ViewList \/ Analyze

SpecPages == Init /\ [][NextPages]_vars

\* C3: deleting the record at position i of n leaves n-1 records, the others
\* in their order, renumbered 0..n-2; after any adds and deletes the
\* positions of the dataset are exactly 0..len-1.
C3_DeleteKeepsOrderAndRenumbers ==
    /\ [](\A i \in 1..Len(df) : df[i].idx = i - 1)
    /\ [][(out'.op = "delete" /\ out'.delete_indices # {}) =>
            LET gone == out'.delete_indices
            IN  /\ Len(df') = Len(df) - Cardinality(gone)
                /\ Records(df') =
                       Records(SelectSeq(df, LAMBDA r : r.idx \notin gone))
                /\ \A i \in 1..Len(df') : df'[i].idx = i - 1]_vars

\* The middle one of three records was deleted: the first and the last
\* remain, in that order, at positions 0 and 1.
C3_Witness ==
    /\ out.op = "delete"
    /\ out.delete_indices = {1}
    /\ Len(df) = 2
    /\ df[1].quantity = 1 /\ df[1].idx = 0
    /\ df[2].quantity = 7 /\ df[2].idx = 1

\* The dataset a new session would read from the file.
Persisted == load_data(file)

\* C15: after every completed add or delete the file exists and holds the
\* records of the in-memory dataset in their order, an empty list when a
\* delete emptied the dataset; a failed add, a delete without a selection,
\* showing the filtered list, running the analysis and starting a session
\* leave the file as it was.
C15_SaveAfterMutate ==
    /\ [](Records(Persisted) = Records(df))
    /\ [][((out'.op = "add" /\ out'.validation_errors = <<>>)
           \/ (out'.op = "delete" /\ out'.delete_indices # {})) =>
              /\ file'.exists
              /\ Len(file'.data) = Len(df')
              /\ \A i \in 1..Len(df') :
                     /\ file'.data[i].date = DateToStr(df'[i].date)
                     /\ to_datetime(file'.data[i].date) = df'[i].date
                     /\ [file'.data[i] EXCEPT !.date = df'[i].date]
                            = Record(df'[i])
              /\ df' = <<>> => file' = FileOf(<<>>)]_vars
    /\ [][((out'.op = "add" /\ out'.validation_errors # <<>>)
           \/ (out'.op = "delete" /\ out'.delete_indices = {})
           \/ out'.op \in {"list", "analysis", "start"}) =>
              file' = file]_vars

\* The only record was deleted: the dataset is empty and the file holds an
\* empty list.
C15_Witness ==
    /\ out.op = "delete"
    /\ out.delete_indices = {0}
    /\ df = <<>>
    /\ file = FileOf(<<>>)
    /\ file # NoFile

-----------------------------------------------------------------------------
(* Python floats.  A money cell of the model holds the exact rational r;   *)
(* the program holds the binary64 number nearest to r, which Float64(r)    *)
(* gives as an exponent e and the Precision bits m of its significand,     *)
(* most significant first (the value is m * 2^(e - Precision + 1)).        *)
(* For the entered prices (whole numbers) the quotient price / quantity is *)
(* rounded once, so the cell r = price / quantity stands for Float64(r).   *)

Precision == 53

\* e with 2^e <= a / b < 2^(e + 1), for a, b > 0.
RECURSIVE Exponent(_, _)
Exponent(a, b) ==
    IF a >= 2 * b THEN Exponent(a, 2 * b) + 1
    ELSE IF a < b THEN Exponent(2 * a, b) - 1
    ELSE 0

RECURSIVE Pow2(_)
Pow2(n) == IF n = 0 THEN 1 ELSE 2 * Pow2(n - 1)

\* 2^i modulo b.
RECURSIVE Pow2Mod(_, _)
Pow2Mod(i, b) ==
    IF i = 0 THEN 1 % b
    ELSE IF i % 2 = 0 THEN (Pow2Mod(i \div 2, b) * Pow2Mod(i \div 2, b)) % b
    ELSE (2 * Pow2Mod(i - 1, b)) % b

\* The first n binary digits of r / b after the point (0 <= r < b) and the
\* remainder left: long division, the remainder after i digits being
\* r * 2^i modulo b.
DivBits(r, b, n) ==
    [bits |-> [i \in 1..n |->
                  IF 2 * ((r * Pow2Mod(i - 1, b)) % b) >= b THEN 1 ELSE 0],
     rem |-> (r * Pow2Mod(n, b)) % b]

\* bits + 1, with the carry out of the most significant bit.
Increment(bits) ==
    IF \A i \in 1..Len(bits) : bits[i] = 1
    THEN [bits |-> [i \in 1..Len(bits) |-> 0], carry |-> 1]
    ELSE LET j == CHOOSE k \in 1..Len(bits) :
                      /\ bits[k] = 0
                      /\ \A l \in (k + 1)..Len(bits) : bits[l] = 1
         IN  [bits |-> [i \in 1..Len(bits) |->
                           IF i < j THEN bits[i] ELSE IF i = j THEN 1 ELSE 0],
              carry |-> 0]

\* The float of exponent e whose significand is `kept`, or the next one up.
Rounded(e, kept, up) ==
    IF ~up THEN [e |-> e, m |-> kept]
    ELSE LET inc == Increment(kept)
         IN  IF inc.carry = 1
             THEN [e |-> e + 1, m |-> <<1>> \o SubSeq(inc.bits, 1, Precision - 1)]
             ELSE [e |-> e, m |-> inc.bits]

\* The binary64 number nearest to the rational r >= 0 (ties to even).
Float64(r) ==
    IF r[1] = 0 THEN [e |-> 0, m |-> <<>>]
    ELSE LET e == Exponent(r[1], r[2])
             a == IF e < 0 THEN r[1] * Pow2(0 - e) ELSE r[1]
             b == IF e > 0 THEN r[2] * Pow2(e) ELSE r[2]
             q == DivBits(a - b, b, Precision - 1)
             kept == <<1>> \o q.bits
         IN  Rounded(e, kept,
                     2 * q.rem > b \/ (2 * q.rem = b /\ kept[Precision] = 1))

RECURSIVE Binary(_)
Binary(n) == IF n = 0 THEN <<>> ELSE Binary(n \div 2) \o <<n % 2>>

\* The number a short run of bits writes, and the n low bits of a number.
RECURSIVE BitsValue(_)
BitsValue(bits) ==
    IF bits = <<>> THEN 0
    ELSE 2 * BitsValue(SubSeq(bits, 1, Len(bits) - 1)) + bits[Len(bits)]

LowBits(v, n) == [i \in 1..n |-> (v \div Pow2(n - i)) % 2]

\* bits * n + carry as the bits of its low Len(bits) places and the carry
\* out of them: limb by limb, the carry of the low limbs going into the
\* high ones.
RECURSIVE MulBits(_, _, _)
MulBits(bits, n, carry) ==
    IF Len(bits) <= 14
    THEN [bits |-> LowBits(BitsValue(bits) * n + carry, Len(bits)),
          carry |-> (BitsValue(bits) * n + carry) \div Pow2(Len(bits))]
    ELSE LET h == Len(bits) \div 2
             low == MulBits(SubSeq(bits, h + 1, Len(bits)), n, carry)
             high == MulBits(SubSeq(bits, 1, h), n, low.carry)
         IN  [bits |-> high.bits \o low.bits, carry |-> high.carry]

\* The Python product x * n of a float and an int n >= 1: the exact product
\* rounded to Precision bits (ties to even).
FloatMulInt(x, n) ==
    IF x.m = <<>> THEN x
    ELSE LET scaled == MulBits(x.m, n, 0)
             product == Binary(scaled.carry) \o scaled.bits
             extra == Len(product) - Precision
             kept == SubSeq(product, 1, Precision)
             dropped == SubSeq(product, Precision + 1, Len(product))
         IN  Rounded(x.e + extra, kept,
                     /\ extra > 0
                     /\ dropped[1] = 1
                     /\ \/ \E i \in 2..extra : dropped[i] = 1
                        \/ kept[Precision] = 1)

\* Two floats that are equal or next to each other.
WithinOneUlp(x, y) ==
    \/ x = y
    \/ x.m # <<>> /\ Rounded(x.e, x.m, TRUE) = y
    \/ y.m # <<>> /\ Rounded(y.e, y.m, TRUE) = x

\* What the data model asks of one record, the price relation apart.
RecordValid(r) ==
    /\ r.quantity >= 1
    /\ RatLe(RatZero, r.unit_price)
    /\ RatLe(RatZero, r.total_price)
    /\ RatLt(RatZero, r.price)
    /\ r.category \in Categories
    /\ Cardinality(Categories) = 8

\* The money values the entry flow can store, their floats, and their
\* float products with the quantities (tabulated once).
EntryCells ==
    {calculate_price(p, q, t)[k] :
        p \in EntryPrices, q \in EntryQuantities, t \in PriceTypes, k \in {1, 2}}

Float64Of == [c \in EntryCells |-> Float64(c)]

FloatProductOf ==
    [c \in EntryCells, q \in EntryQuantities |-> FloatMulInt(Float64(c), q)]

\* unit_price * quantity as Python computes it from the stored floats.
FloatProduct(r) == FloatProductOf[r.unit_price, r.quantity]

\* C13 as stated: after any adds and deletes every record is valid and its
\* total_price == unit_price * quantity, compared as the program's floats.
C13_Original ==
    \A i \in 1..Len(df) :
        /\ RecordValid(df[i])
        /\ FloatProduct(df[i]) = Float64Of[df[i].total_price]

\* C13 amended: after any adds and deletes every record has quantity >= 1,
\* unit_price >= 0, total_price >= 0, input price > 0 and a category of the
\* 8-category enum; total_price equals unit_price * quantity exactly when
\* the price was entered per unit, and within one unit in the last place
\* when it was entered as a total (unit_price is then the rounded quotient
\* total_price / quantity).  An add whose validation fails leaves the
\* dataset and the file as they were; an accepted add appends one record.
C13_RecordsValid ==
    /\ [](\A i \in 1..Len(df) :
            /\ RecordValid(df[i])
            /\ df[i].price \in {df[i].unit_price, df[i].total_price}
            /\ RatMul(df[i].unit_price, Int2Rat(df[i].quantity))
                   = df[i].total_price
            /\ WithinOneUlp(FloatProduct(df[i]), Float64Of[df[i].total_price])
            /\ df[i].price = df[i].unit_price =>
                   FloatProduct(df[i]) = Float64Of[df[i].total_price])
    /\ [][out'.op = "add" =>
            IF out'.validation_errors # <<>>
            THEN df' = df /\ file' = file
            ELSE /\ Len(df') = Len(df) + 1
                 /\ SubSeq(df', 1, Len(df)) = df]_vars

\* A total of 29 entered for 7 pieces was accepted: the stored unit price
\* is the rounded 29 / 7, and 7 times it is not 29.
C13_Witness ==
    /\ out.op = "add"
    /\ out.validation_errors = <<>>
    /\ df # <<>>
    /\ df[Len(df)].price = Int2Rat(29)
    /\ df[Len(df)].quantity = 7
    /\ df[Len(df)].unit_price = Rat(29, 7)
    /\ df[Len(df)].total_price = Int2Rat(29)
    /\ FloatProduct(df[Len(df)]) # Float64Of[Int2Rat(29)]

-----------------------------------------------------------------------------
(* The analysis functions applied to a dataset a file can hold.  A stored  *)
(* record is one the data model allows: a category of the enum, a quantity *)
(* >= 1, prices >= 0, the two derived prices as calculate_price gives them.*)

DataDays == 0..MaxDay

DataPurchases ==
    {[category |-> "Food", product_name |-> <<"chi", "kin">>,
      price |-> Int2Rat(3), quantity |-> 1, price_type |-> "unit"],
     [category |-> "Transport", product_name |-> <<"beo", "seu">>,
      price |-> Int2Rat(7), quantity |-> 2, price_type |-> "total"],
     [category |-> "Food", product_name |-> <<"keo", "pi">>,
      price |-> Int2Rat(0), quantity |-> 1, price_type |-> "unit"],
     [category |-> "Transport", product_name |-> <<"taek", "si">>,
      price |-> Int2Rat(4), quantity |-> 2, price_type |-> "unit"]}

\* One record of the JSON file.
StoredRecord(d, p) ==
    LET prices == calculate_price(p.price, p.quantity, p.price_type)
    IN  [date |-> DateToStr(Timestamp(d)), category |-> p.category,
         product_name |-> p.product_name, price |-> p.price,
         quantity |-> p.quantity, unit_price |-> prices[1],
         total_price |-> prices[2]]

StoredRecords == {StoredRecord(d, p) : d \in DataDays, p \in DataPurchases}

Files == {FileOf(data) : data \in UNION {[1..n -> StoredRecords] : n \in 0..MaxDataRows}}

CategoryFilters == {NoFilter, "", "Food", "Transport", "Medical"}

Queries ==
    {<<"x">>, <<"bi", "gyo">>, <<"sik", "bi", "ji", "chul">>, <<"bin", "do">>,
     <<"ji", "chul">>}

\* A dataset read from the file and a call about to be made on it.
InitAnalysis ==
    /\ file \in Files
    /\ df = load_data(file)
    /\ out \in {[op |-> "call", fn |-> "analyze_expenditure", start_date |-> a,
                 end_date |-> b, arg |-> c] :
                    a \in DataDays, b \in DataDays, c \in CategoryFilters}
          \cup {[op |-> "call", fn |-> "ai_analysis", start_date |-> a,
                 end_date |-> b, arg |-> q] :
                    a \in DataDays, b \in DataDays, q \in Queries}

CallAnalyzeExpenditure ==
    /\ out.op = "call" /\ out.fn = "analyze_expenditure"
    /\ out' = [op |-> "analyze_expenditure",
               start_date |-> out.start_date, end_date |-> out.end_date,
               category_filter |-> out.arg,
               ret |-> analyze_expenditure(df, out.start_date, out.end_date,
                                           out.arg)]
    /\ df' = parse_date_series(df)
    /\ UNCHANGED file

CallAiAnalysis ==
    /\ out.op = "call" /\ out.fn = "ai_analysis"
    /\ out' = [op |-> "ai_analysis",
               start_date |-> out.start_date, end_date |-> out.end_date,
               user_query |-> out.arg,
               ret |-> ai_analysis(df, out.start_date, out.end_date, out.arg)]
    /\ df' = parse_date_series(df)
    /\ UNCHANGED file

NextAnalysis == CallAnalyzeExpenditure \/ CallAiAnalysis

SpecAnalysis == InitAnalysis /\ [][NextAnalysis]_vars

-----------------------------------------------------------------------------
(* Claims about the analysis functions.                                    *)

\* Positions of the records of df dated within [a, b].
RowsWithin(a, b) ==
    {i \in 1..Len(df) : df[i].date.t = "ts" /\ a <= df[i].date.v
                        /\ df[i].date.v <= b}

\* Positions of the records that survive the date range and the category
\* filter of the last analyze_expenditure call.
Survivors ==
    {i \in RowsWithin(out.start_date, out.end_date) :
        out.category_filter \in {NoFilter, ""}
        \/ df[i].category = out.category_filter}

RECURSIVE TotalOver(_)
TotalOver(S) ==
    IF S = {} THEN RatZero
    ELSE LET i == CHOOSE x \in S : TRUE
         IN  RatAdd(df[i].total_price, TotalOver(S \ {i}))

RECURSIVE SumAmounts(_)
SumAmounts(series) ==
    IF series = <<>> THEN RatZero
    ELSE RatAdd(Head(series).amount, SumAmounts(Tail(series)))

\* C1: analyze_expenditure returns a "no data" outcome whenever the dataset
\* is empty or no record survives the date / category filter, never an
\* aggregate of zero records; an aggregate it returns has count >= 1.
C1_NoDataIsExplicit ==
    out.op = "analyze_expenditure" =>
        /\ (df = <<>> \/ Survivors = {}) <=> (out.ret.kind = "nodata")
        /\ out.ret.kind = "nodata" =>
               out.ret.msg \in {MsgNoData, MsgNoDataInPeriod,
                                MsgNoDataForCondition}
        /\ out.ret.kind = "aggregate" =>
               /\ out.ret.count >= 1
               /\ out.ret.count = Cardinality(Survivors)

\* Records lie in the period, none of them in the category asked for.
C1_Witness ==
    /\ out.op = "analyze_expenditure"
    /\ RowsWithin(out.start_date, out.end_date) # {}
    /\ out.category_filter = "Medical"
    /\ out.ret = [kind |-> "nodata", msg |-> MsgNoDataForCondition]

TrendOf(ret) == ret.sections[1].content[1]

\* Positions of the records in the previous window of the last report.
PreviousRows ==
    {i \in 1..Len(df) : df[i].date.t = "ts"
                        /\ out.ret.window.prev_start <= df[i].date.v
                        /\ df[i].date.v < out.ret.window.prev_end}

IsReport == out.op = "ai_analysis" /\ out.ret.kind = "report"

\* C8 as stated: with a previous-window total of 0 the trend section says
\* "no comparable previous-period data" and no percentage, whether the
\* previous window has no records or records that sum to 0.
C8_Original ==
    (IsReport /\ TotalOver(PreviousRows) = RatZero) =>
        /\ TrendOf(out.ret).cmp = CmpNoPrevData
        /\ TrendOf(out.ret).cmp # CmpPercent

\* C8 amended: with a previous-window total of 0 the trend section states no
\* percentage; it says "no comparable previous-period data" when the
\* previous window has no records and "there was no spending in the previous
\* period" when it has records that sum to 0.
C8_ZeroPreviousTotal ==
    (IsReport /\ TotalOver(PreviousRows) = RatZero) =>
        /\ out.ret.sections[1].title = TitleTrend
        /\ TrendOf(out.ret).cmp # CmpPercent
        /\ PreviousRows = {} => TrendOf(out.ret).cmp = CmpNoPrevData
        /\ PreviousRows # {} => TrendOf(out.ret).cmp = CmpNoPrevSpending

\* The previous window holds a record of total 0; the current total is 7.
C8_Witness ==
    /\ IsReport
    /\ out.user_query = <<"bi", "gyo">>
    /\ PreviousRows # {}
    /\ TotalOver(PreviousRows) = RatZero
    /\ TrendOf(out.ret).current_total = Int2Rat(7)
    /\ TrendOf(out.ret).cmp = CmpNoPrevSpending

\* The ratios a report holds, section by section.
SectionRatios(sec) ==
    IF sec.title = TitleTrend
    THEN {sec.content[1].daily_avg, sec.content[1].change}
    ELSE IF sec.title = TitleCategory
    THEN UNION {{sec.content[k].share, sec.content[k].change} :
                   k \in 1..Len(sec.content)}
    ELSE IF sec.title = TitleFeedback
    THEN {sec.content[k].value : k \in 1..Len(sec.content)}
    ELSE {sec.content[k].share :
             k \in {j \in 1..Len(sec.content) :
                       sec.content[j].line = "top category"}}

\* C9: no ratio computed by analyze_expenditure or ai_analysis is a division
\* by zero, also when every filtered record has total_price 0.
C9_NoDivisionByZero ==
    /\ (out.op = "analyze_expenditure" /\ out.ret.kind = "aggregate") =>
           /\ ~IsDivByZero(out.ret.average)
           /\ \A k \in 1..Len(out.ret.by_category) :
                  ~IsDivByZero(out.ret.by_category[k].percentage)
    /\ IsReport =>
           \A n \in 1..Len(out.ret.sections) :
               \A r \in SectionRatios(out.ret.sections[n]) : ~IsDivByZero(r)

\* C10: the previous window ends where the current one starts (no gap, no
\* overlap) and is as many calendar days long as the current window
\* [start_date, end_date].
C10_PreviousWindowSameLength ==
    (IsReport /\ out.start_date <= out.end_date) =>
        /\ out.ret.window.prev_end = out.start_date
        /\ PreviousRows \cap RowsWithin(out.start_date, out.end_date) = {}
        /\ out.ret.window.prev_end - out.ret.window.prev_start
               = out.end_date - out.start_date + 1

\* The sections of the last report that carry the given title.
SectionsTitled(title) ==
    SelectSeq(out.ret.sections, LAMBDA sec : sec.title = title)

\* The current-window and previous-window amounts of a category, summed from
\* the records of df.
CurrentAmount(category) ==
    TotalOver({i \in RowsWithin(out.start_date, out.end_date) :
                  df[i].category = category})
PreviousAmount(category) ==
    TotalOver({i \in PreviousRows : df[i].category = category})

\* C11: every line of the category-detail section states the percentage
\* (current - previous) / previous * 100 exactly when the category's
\* previous-window amount is > 0; otherwise it says "new spending" exactly
\* when the previous window holds a record (of any category) and carries no
\* comparison wording exactly when the previous window holds none.
C11_CategoryComparison ==
    IsReport =>
        \A n \in 1..Len(SectionsTitled(TitleCategory)) :
            \A k \in 1..Len(SectionsTitled(TitleCategory)[n].content) :
                LET line == SectionsTitled(TitleCategory)[n].content[k]
                    current == CurrentAmount(line.category)
                    previous == PreviousAmount(line.category)
                IN  /\ line.amount = current
                    /\ (line.cmp = CmpPercent) <=> RatLt(RatZero, previous)
                    /\ RatLt(RatZero, previous) =>
                           /\ line.change =
                                  Rat((current[1] * previous[2]
                                       - previous[1] * current[2]) * 100,
                                      previous[1] * current[2])
                           /\ line.direction =
                                  IF RatLt(previous, current)
                                  THEN "increase" ELSE "decrease"
                    /\ ~RatLt(RatZero, previous) =>
                           /\ line.cmp \in {CmpNew, CmpNone}
                           /\ (line.cmp = CmpNew) <=> (PreviousRows # {})
                           /\ (line.cmp = CmpNone) <=> (PreviousRows = {})

\* The previous window holds a Food record of total 0: the Food line of the
\* category-detail section says "new spending".
C11_Witness ==
    /\ IsReport
    /\ Len(SectionsTitled(TitleCategory)) = 1
    /\ \E i \in PreviousRows :
           df[i].category = "Food" /\ df[i].total_price = RatZero
    /\ SectionsTitled(TitleCategory)[1].content =
           <<[category |-> "Food", amount |-> Int2Rat(3), share |-> Int2Rat(100),
              cmp |-> CmpNew, change |-> RatZero, direction |-> ""]>>

\* The categories of the records in the current window of the last report.
CurrentCategories ==
    {df[i].category : i \in RowsWithin(out.start_date, out.end_date)}

\* The positions of the lines in the given content that apply the given
\* rule to the given category.
RuleLines(content, rule, category) ==
    {k \in 1..Len(content) :
        content[k].rule = rule /\ content[k].category = category}

\* C12: in the feedback section, a category of the current window gets the
\* "review necessity" line exactly when its amount is at least 30% of the
\* current total (30% itself included), and never more than one such line.
C12_HighShareRule ==
    IsReport =>
        LET feedback == SectionsTitled(TitleFeedback)
            current_total ==
                TotalOver(RowsWithin(out.start_date, out.end_date))
        IN  /\ Len(feedback) = 1
            /\ \A c \in CurrentCategories :
                   LET lines == RuleLines(feedback[1].content, RuleHighShare, c)
                   IN  /\ Cardinality(lines) <= 1
                       /\ (lines # {}) <=>
                              /\ RatLt(RatZero, current_total)
                              /\ RatLe(RatMul(Int2Rat(30), current_total),
                                       RatMul(Int2Rat(100), CurrentAmount(c)))
                       /\ \A k \in lines :
                              feedback[1].content[k].value =
                                  Rat(100 * CurrentAmount(c)[1] * current_total[2],
                                      CurrentAmount(c)[2] * current_total[1])
            /\ \A k \in 1..Len(feedback[1].content) :
                   feedback[1].content[k].rule = RuleHighShare =>
                       feedback[1].content[k].category \in CurrentCategories

\* Food 3 of a total of 10: a share of exactly 30%, and the line is there.
C12_Witness ==
    /\ IsReport
    /\ TotalOver(RowsWithin(out.start_date, out.end_date)) = Int2Rat(10)
    /\ CurrentAmount("Food") = Int2Rat(3)
    /\ \E k \in 1..Len(SectionsTitled(TitleFeedback)[1].content) :
           SectionsTitled(TitleFeedback)[1].content[k] =
               [rule |-> RuleHighShare, category |-> "Food",
                value |-> Int2Rat(30)]

\* The titles of the sections of a report, in the order of the text.
Titles(ret) == [n \in 1..Len(ret.sections) |-> ret.sections[n].title]

\* C14: when the current window holds a record, ai_analysis returns, for
\* every query (also one without a trigger keyword), a report whose first
\* section is the trend and whose last is the feedback, with the category
\* detail and the pattern sections, when present, between them in that
\* order and no section twice; the "insufficient data" message is not
\* returned.
C14_SectionOrder ==
    (out.op = "ai_analysis" /\ RowsWithin(out.start_date, out.end_date) # {}) =>
        /\ out.ret.kind = "report"
        /\ Titles(out.ret) \in
               {<<TitleTrend, TitleFeedback>>,
                <<TitleTrend, TitleCategory, TitleFeedback>>,
                <<TitleTrend, TitlePattern, TitleFeedback>>,
                <<TitleTrend, TitleCategory, TitlePattern, TitleFeedback>>}
        /\ \A n \in 1..Len(out.ret.sections) :
               out.ret.sections[n].content # <<>>

\* A query without any trigger keyword on a window whose only record has a
\* total of 0: trend, pattern and feedback, the feedback being the
\* "stable" line.
C14_Witness ==
    /\ out.op = "ai_analysis"
    /\ out.user_query = <<"x">>
    /\ RowsWithin(out.start_date, out.end_date) # {}
    /\ TotalOver(RowsWithin(out.start_date, out.end_date)) = RatZero
    /\ out.ret.kind = "report"
    /\ Titles(out.ret) = <<TitleTrend, TitlePattern, TitleFeedback>>
    /\ out.ret.sections[3].content =
           <<[rule |-> RuleStable, category |-> "", value |-> RatZero]>>

-----------------------------------------------------------------------------
(* Calls of the three leaf functions on inputs drawn from bounded sets.    *)

NameAlphabet ==
    {"ot", "yak", "guk", "chaek", "chi", "kin", "beo", "seu", "ui", "ryo", "X"}

Texts(n) == UNION {[1..k -> NameAlphabet] : k \in 0..n}

PriceSamples == {Rat(n, d) : n \in (0 - 2)..6, d \in {1, 2}}

QuantitySamples == (0 - 1)..3

DateValues == {None, Date(0)}
CategoryValues == {None, Str(<<>>), Str(CategoryName["Food"])}
ProductValues == {None, Str(<<>>), Str(<<"chi", "kin">>)}
PriceValues == {None} \cup {Num(Rat(n, 2)) : n \in {0 - 2, 0, 1, 6}}
QuantityValues == {None} \cup {Num(Int2Rat(q)) : q \in QuantitySamples}

\* A call about to be made: the function's name and its arguments.
InitRecommendCategory ==
    /\ df = <<>>
    /\ file = NoFile
    /\ out \in {[op |-> "call", product_name |-> n] : n \in Texts(MaxNameLen)}

InitValidateInput ==
    /\ df = <<>>
    /\ file = NoFile
    /\ out \in {[op |-> "call", date_input |-> d, category |-> c,
                 product_name |-> n, price |-> p, quantity |-> q] :
                    d \in DateValues, c \in CategoryValues, n \in ProductValues,
                    p \in PriceValues, q \in QuantityValues}

InitCalculatePrice ==
    /\ df = <<>>
    /\ file = NoFile
    /\ out \in {[op |-> "call", price |-> p, quantity |-> q, price_type |-> t] :
                    p \in PriceSamples, q \in QuantitySamples,
                    t \in {"unit", "total"}}

CallRecommendCategory ==
    /\ out.op = "call"
    /\ out' = [op |-> "recommend_category",
               product_name |-> out.product_name,
               ret |-> recommend_category(out.product_name)]
    /\ UNCHANGED <<df, file>>

CallValidateInput ==
    /\ out.op = "call"
    /\ out' = [op |-> "validate_input",
               date_input |-> out.date_input, category |-> out.category,
               product_name |-> out.product_name, price |-> out.price,
               quantity |-> out.quantity,
               ret |-> validate_input(out.date_input, out.category,
                                      out.product_name, out.price,
                                      out.quantity)]
    /\ UNCHANGED <<df, file>>

CallCalculatePrice ==
    /\ out.op = "call"
    /\ out' = [op |-> "calculate_price",
               price |-> out.price, quantity |-> out.quantity,
               price_type |-> out.price_type,
               ret |-> calculate_price(out.price, out.quantity, out.price_type)]
    /\ UNCHANGED <<df, file>>

SpecClassify == InitRecommendCategory /\ [][CallRecommendCategory]_vars
SpecValidate == InitValidateInput /\ [][CallValidateInput]_vars
SpecPrice == InitCalculatePrice /\ [][CallCalculatePrice]_vars

-----------------------------------------------------------------------------
(* Claims about the leaf functions.                                        *)

NonOtherCategories == Categories \ {"Other"}

KeywordsOf(c) == {CATEGORY_KEYWORDS[c][i] : i \in 1..Len(CATEGORY_KEYWORDS[c])}

\* Number of keywords of category c present in the lower-cased name.
PresenceScore(c, product_name) ==
    Cardinality({k \in KeywordsOf(c) : Contains(k, lower(product_name))})

OrderIndex(c) == CHOOSE i \in 1..Len(CategoryOrder) : CategoryOrder[i] = c

\* C4: recommend_category returns one of the 8 fixed categories, and it
\* returns "Other" exactly when no keyword of the 7 other categories is a
\* substring of the lower-cased product name (so also for the empty name).
C4_ClassifyTotalAndOther ==
    out.op = "recommend_category" =>
        /\ out.ret \in Categories
        /\ Cardinality(Categories) = 8
        /\ (out.ret = "Other") <=>
              (\A c \in NonOtherCategories : \A k \in KeywordsOf(c) :
                   ~Contains(k, lower(out.product_name)))
        /\ (out.product_name = <<>> => out.ret = "Other")

C4_Witness ==
    /\ out.op = "recommend_category"
    /\ out.product_name = <<"guk", "X">>
    /\ out.ret = "Other"

\* C5: a keyword adds at most 1 to its category's score however often it
\* occurs; among the categories sharing the maximum positive score the one
\* declared first is returned; the returned category's score is never lower
\* than another category's.
C5_PresenceAndTieBreak ==
    out.op = "recommend_category" =>
        LET name == out.product_name
            best == out.ret
        IN  /\ \A c \in Categories :
                   /\ Scores(name)[c] = PresenceScore(c, name)
                   /\ Scores(name)[c] <= Len(CATEGORY_KEYWORDS[c])
                   /\ PresenceScore(best, name) >= PresenceScore(c, name)
            /\ \A c \in NonOtherCategories :
                   (PresenceScore(c, name) > 0
                    /\ PresenceScore(c, name) = PresenceScore(best, name))
                   => OrderIndex(best) <= OrderIndex(c)

\* "yak" twice and "ot" once: Medical and Shopping both score 1 and the
\* earlier-declared Shopping wins.
C5_Witness ==
    /\ out.op = "recommend_category"
    /\ out.product_name = <<"yak", "yak", "ot">>
    /\ out.ret = "Shopping"

\* C6: for quantity >= 1, total_price = unit_price * quantity, with
\* unit_price = price in per-unit mode and total_price = price (and
\* unit_price = total_price / quantity) in total mode; for quantity <= 0
\* both values are the input price.
C6_PriceRelation ==
    out.op = "calculate_price" =>
        LET unit_price == out.ret[1]
            total_price == out.ret[2]
            q == Int2Rat(out.quantity)
        IN  /\ out.quantity >= 1 /\ out.price_type = "unit" =>
                   /\ unit_price = out.price
                   /\ total_price = RatMul(unit_price, q)
            /\ out.quantity >= 1 /\ out.price_type = "total" =>
                   /\ total_price = out.price
                   /\ unit_price = RatDiv(total_price, q)
                   /\ RatMul(unit_price, q) = total_price
            /\ out.quantity <= 0 =>
                   /\ unit_price = out.price
                   /\ total_price = out.price

C6_Witness ==
    /\ out.op = "calculate_price"
    /\ out.price_type = "total"
    /\ out.price = Int2Rat(3)
    /\ out.quantity = 2
    /\ out.ret = <<Rat(3, 2), Int2Rat(3)>>

FieldFails(label, date_input, category, product_name, price) ==
    CASE label = LabelDate -> date_input = None
      [] label = LabelCategory -> category \in {None, Str(<<>>)}
      [] label = LabelProduct -> product_name \in {None, Str(<<>>)}
      [] OTHER -> price = None \/ price.v[1] <= 0

\* C7: validate_input returns one label per failing field in the order
\* date, category, product name, price; the price label is present exactly
\* when the price is absent or <= 0; the quantity never changes the result;
\* the list is empty exactly when all four fields pass.
C7_ValidateLabels ==
    out.op = "validate_input" =>
        LET Fails(label) == FieldFails(label, out.date_input, out.category,
                                       out.product_name, out.price)
            labels == <<LabelDate, LabelCategory, LabelProduct, LabelPrice>>
        IN  /\ out.ret = SelectSeq(labels, Fails)
            /\ (\E i \in 1..Len(out.ret) : out.ret[i] = LabelPrice)
                   <=> (out.price = None \/ RatLe(out.price.v, RatZero))
            /\ \A q \in QuantityValues :
                   validate_input(out.date_input, out.category,
                                  out.product_name, out.price, q) = out.ret
            /\ (out.ret = <<>>) <=> (\A i \in 1..4 : ~Fails(labels[i]))

C7_Witness ==
    /\ out.op = "validate_input"
    /\ out.price = Num(RatZero)
    /\ out.quantity = Num(Int2Rat(0))
    /\ out.ret = <<LabelDate, LabelPrice>>

=============================================================================
